---------------------------- MODULE Spec2Model ----------------------------
(***************************************************************************)
(* A model of the chipper CHIP-8 interpreter (src/src/chip8.rs) and of the *)
(* calls its host loop (src/src/main.rs) makes on it: boot_rom, step,      *)
(* update_timers, set_key_pressed and the two public quirk switches.       *)
(*                                                                         *)
(* The machine is the record chip8, with one field per field of the Rust   *)
(* struct Chip8 (the rng is an input of step).  Arrays are functions on    *)
(* 0 .. len-1.  A Rust panic (an index out of bounds; an arithmetic        *)
(* overflow when the build checks overflows) ends the process: status      *)
(* becomes "panicked" and no call follows.  Whether overflows are checked  *)
(* depends on the build profile, so overflow_checks is chosen in Init and  *)
(* both outcomes are explored.                                             *)
(***************************************************************************)
EXTENDS Integers, Sequences, FiniteSets, TLC

VARIABLES
    chip8,            \* the Chip8 struct
    prev,             \* the Chip8 struct as it was before the last call
    call,             \* the last call the host made, with its inputs
    prev2,            \* the Chip8 struct as it was before the call before the last
    call2,            \* the call the host made before the last one
    status,           \* "running" or "panicked"
    overflow_checks,  \* TRUE: overflowing +, -, * panic (debug profile); FALSE: they wrap
    loads,            \* the number of boot_rom calls made so far
    pending           \* the calls the program made that have not returned yet

vars == <<chip8, prev, call, prev2, call2, status, overflow_checks, loads,
          pending>>

----------------------------------------------------------------------------
(* Program constants *)

MEMORY_SIZE == 4096
DISPLAY_WIDTH == 64
DISPLAY_HEIGHT == 32
NUM_REGS == 16
STACK_SIZE == 16
FLAG == 15
ROMTOP == 512
CHARSET_LEN == 80
NO_KEY == 255
U8 == 256
U16 == 65536
I_MASK == 4096

CHARSET ==
    << 240, 144, 144, 144, 240,
        32,  96,  32,  32, 112,
       240,  16, 240, 128, 240,
       240,  16, 240,  16, 240,
       144, 144, 240,  16,  16,
       240, 128, 240,  16, 240,
       240, 128, 240, 144, 240,
       240,  16,  32,  64,  64,
       240, 144, 240, 144, 240,
       240, 144, 240,  16, 240,
       240, 144, 240, 144, 144,
       224, 144, 224, 144, 224,
       240, 128, 128, 128, 240,
       224, 144, 144, 144, 224,
       240, 128, 240, 128, 240,
       240, 128, 240, 128, 128 >>

----------------------------------------------------------------------------
(* Fixed-width arithmetic *)

RECURSIVE BitAnd(_, _)
BitAnd(a, b) ==
    IF a = 0 \/ b = 0 THEN 0
    ELSE (a % 2) * (b % 2) + 2 * BitAnd(a \div 2, b \div 2)

RECURSIVE BitOr(_, _)
BitOr(a, b) ==
    IF a = 0 THEN b
    ELSE IF b = 0 THEN a
    ELSE (IF a % 2 = 1 \/ b % 2 = 1 THEN 1 ELSE 0) + 2 * BitOr(a \div 2, b \div 2)

RECURSIVE BitXor(_, _)
BitXor(a, b) ==
    IF a = 0 THEN b
    ELSE IF b = 0 THEN a
    ELSE (((a % 2) + (b % 2)) % 2) + 2 * BitXor(a \div 2, b \div 2)

\* a + b in an unsigned type of `width` values: the result a wrapping build
\* stores, and whether the exact sum does not fit.
Add(a, b, width) == [val |-> (a + b) % width, ovf |-> a + b >= width]

Sub(a, b, width) == [val |-> (a - b) % width, ovf |-> a < b]

Mul(a, b, width) == [val |-> (a * b) % width, ovf |-> a * b >= width]

\* The outcome of a handler: the struct it leaves and whether it panicked.
\* report: whether it printed an "unsupported/unknown instruction" line.
Done(m) == [m |-> m, panic |-> FALSE, report |-> FALSE]

Panic(m) == [m |-> m, panic |-> TRUE, report |-> FALSE]

Unknown(m) == [m |-> m, panic |-> FALSE, report |-> TRUE]

\* A plain (unchecked-by-the-programmer) +, -, * of the source: panics on
\* overflow in a build with overflow checks, wraps otherwise.
Overflows(r) == r.ovf /\ overflow_checks

----------------------------------------------------------------------------
(* Chip8::new *)

\* [0; 64 * 32], [0; 16] and [0; 16]
BlankDisplay == [p \in 0 .. DISPLAY_WIDTH * DISPLAY_HEIGHT - 1 |-> 0]

ZeroStack == [s \in 0 .. STACK_SIZE - 1 |-> 0]

ZeroRegs == [r \in 0 .. NUM_REGS - 1 |-> 0]

\* memory as new leaves it: the charset, then zeros
BaselineMemory ==
    [a \in 0 .. MEMORY_SIZE - 1 |-> IF a < CHARSET_LEN THEN CHARSET[a + 1] ELSE 0]

new ==
    [ memory |-> BaselineMemory,
      stack |-> ZeroStack,
      display |-> BlankDisplay,
      reg_v |-> ZeroRegs,
      reg_sp |-> 0,
      reg_i |-> 0,
      reg_pc |-> ROMTOP,
      reg_dt |-> 0,
      reg_st |-> 0,
      key_pressed |-> 0,
      shift_using_vy |-> FALSE,
      increment_i_on_ld |-> FALSE ]

(* Chip8::clear_display *)
clear_display(m) == [m EXCEPT !.display = BlankDisplay]

(* A variant of update_timers with wrapping decrements and no test for 0 *)
update_timers_wrapping(m) ==
    [m EXCEPT !.reg_dt = (m.reg_dt - 1) % U8,
              !.reg_st = (m.reg_st - 1) % U8]

(* Chip8::update_timers *)
update_timers(m) ==
    [m EXCEPT !.reg_dt = IF m.reg_dt > 0 THEN m.reg_dt - 1 ELSE m.reg_dt,
              !.reg_st = IF m.reg_st > 0 THEN m.reg_st - 1 ELSE m.reg_st]

(* Chip8::set_key_pressed *)
set_key_pressed(m, key) == [m EXCEPT !.key_pressed = key]

(* A variant of boot_rom that does not zero the stack *)
boot_rom_KeepsStack(m, file, n) ==
    LET file_len == Len(file.bytes)
        loaded == [m EXCEPT !.memory =
                     [a \in ROMTOP .. ROMTOP + n - 1 |-> file.bytes[a - ROMTOP + 1]]
                         @@ m.memory]
        reset == [loaded EXCEPT !.key_pressed = NO_KEY,
                                !.reg_sp = 0,
                                !.reg_i = 0,
                                !.reg_pc = ROMTOP,
                                !.reg_dt = 0,
                                !.reg_st = 0,
                                !.reg_v = ZeroRegs]
    IN  IF ~file.exists
        THEN [m |-> m, panic |-> FALSE, ret |-> "Err"]
        ELSE IF ROMTOP + file_len > MEMORY_SIZE
        THEN [m |-> m, panic |-> TRUE, ret |-> "none"]
        ELSE [m |-> clear_display(reset), panic |-> FALSE, ret |-> "Ok"]

(* Chip8::boot_rom.  file is what file_name names: whether File::open finds
   it (exists) and its contents (bytes); n is the number of bytes the one
   call of Read::read delivers (0 .. file_len).  ret is the Result returned. *)
boot_rom(m, file, n) ==
    LET file_len == Len(file.bytes)
        loaded == [m EXCEPT !.memory =
                     [a \in ROMTOP .. ROMTOP + n - 1 |-> file.bytes[a - ROMTOP + 1]]
                         @@ m.memory]
        reset == [loaded EXCEPT !.key_pressed = NO_KEY,
                                !.reg_sp = 0,
                                !.reg_i = 0,
                                !.reg_pc = ROMTOP,
                                !.reg_dt = 0,
                                !.reg_st = 0,
                                !.stack = ZeroStack,
                                !.reg_v = ZeroRegs]
    IN  IF ~file.exists
        THEN [m |-> m, panic |-> FALSE, ret |-> "Err"]
        ELSE IF ROMTOP + file_len > MEMORY_SIZE
        THEN [m |-> m, panic |-> TRUE, ret |-> "none"]
        ELSE [m |-> clear_display(reset), panic |-> FALSE, ret |-> "Ok"]

----------------------------------------------------------------------------
(* The instructions of Chip8::step.  Each takes the struct after the fetch
   (reg_pc already advanced by 2) and the decoded fields it uses. *)

SetV(m, x, val) == [m EXCEPT !.reg_v[x] = val]

SkipNext(m) == [m EXCEPT !.reg_pc = (m.reg_pc + 2) % U16]

\* 00E0
CLS(m) == Done(clear_display(m))

\* 00EE
RET(m) ==
    IF m.reg_sp >= STACK_SIZE THEN Panic(m)
    ELSE LET popped == [m EXCEPT !.reg_pc = m.stack[m.reg_sp]]
             sp == Sub(m.reg_sp, 1, U16)
         IN  IF Overflows(sp) THEN Panic(popped)
             ELSE Done([popped EXCEPT !.reg_sp = sp.val])

\* 1nnn
JP(m, nnn) == Done([m EXCEPT !.reg_pc = nnn])

\* 2nnn pushing the address of the call itself
CALL_SavesCallAddress(m, nnn) ==
    LET sp == Add(m.reg_sp, 1, U16)
    IN  IF Overflows(sp) THEN Panic(m)
        ELSE IF sp.val >= STACK_SIZE THEN Panic([m EXCEPT !.reg_sp = sp.val])
        ELSE Done([m EXCEPT !.reg_sp = sp.val,
                            !.stack[sp.val] = m.reg_pc - 2,
                            !.reg_pc = nnn])

\* 2nnn
CALL(m, nnn) ==
    LET sp == Add(m.reg_sp, 1, U16)
    IN  IF Overflows(sp) THEN Panic(m)
        ELSE IF sp.val >= STACK_SIZE THEN Panic([m EXCEPT !.reg_sp = sp.val])
        ELSE Done([m EXCEPT !.reg_sp = sp.val,
                            !.stack[sp.val] = m.reg_pc,
                            !.reg_pc = nnn])

\* 3xkk
SE_Vx_byte(m, x, kk) == Done(IF m.reg_v[x] = kk THEN SkipNext(m) ELSE m)

\* 4xkk
SNE_Vx_byte(m, x, kk) == Done(IF m.reg_v[x] # kk THEN SkipNext(m) ELSE m)

\* A variant of 5xyn that does not look at n
SE_Vx_Vy_AnyN(m, x, y, n) ==
    Done(IF m.reg_v[x] = m.reg_v[y] THEN SkipNext(m) ELSE m)

\* 5xyn
SE_Vx_Vy(m, x, y, n) ==
    Done(IF n = 0 /\ m.reg_v[x] = m.reg_v[y] THEN SkipNext(m) ELSE m)

\* 6xkk
LD_Vx_byte(m, x, kk) == Done(SetV(m, x, kk))

\* A variant of 7xkk that stores the carry in the flag register, as 8xy4 does
ADD_Vx_byte_Carry(m, x, kk) ==
    Done(SetV(SetV(m, x, (m.reg_v[x] + kk) % U8),
              FLAG, IF m.reg_v[x] + kk >= U8 THEN 1 ELSE 0))

\* 7xkk
ADD_Vx_byte(m, x, kk) == Done(SetV(m, x, (m.reg_v[x] + kk) % U8))

\* 8xy0
LD_Vx_Vy(m, x, y) == Done(SetV(m, x, m.reg_v[y]))

\* 8xy1
OR_Vx_Vy(m, x, y) == Done(SetV(m, x, BitOr(m.reg_v[x], m.reg_v[y])))

\* 8xy2
AND_Vx_Vy(m, x, y) == Done(SetV(m, x, BitAnd(m.reg_v[x], m.reg_v[y])))

\* 8xy3
XOR_Vx_Vy(m, x, y) == Done(SetV(m, x, BitXor(m.reg_v[x], m.reg_v[y])))

\* A variant of 8xy4 that stores the carry before the sum
ADD_Vx_Vy_FlagFirst(m, x, y) ==
    LET sum == Add(m.reg_v[x], m.reg_v[y], U8)
    IN  Done(SetV(SetV(m, FLAG, IF sum.ovf THEN 1 ELSE 0), x, sum.val))

\* 8xy4: overflowing_add, then reg_v[x] = result, then reg_v[FLAG] = carry
ADD_Vx_Vy(m, x, y) ==
    LET sum == Add(m.reg_v[x], m.reg_v[y], U8)
    IN  Done(SetV(SetV(m, x, sum.val), FLAG, IF sum.ovf THEN 1 ELSE 0))

\* 8xy5: reg_v[FLAG] is written first; the subtraction then reads reg_v[x]
\* and reg_v[y] again
SUB_Vx_Vy(m, x, y) ==
    LET flagged == SetV(m, FLAG, IF m.reg_v[y] > m.reg_v[x] THEN 0 ELSE 1)
    IN  Done(SetV(flagged, x, Sub(flagged.reg_v[x], flagged.reg_v[y], U8).val))

\* A variant of 8xy6 that ignores shift_using_vy
SHR_Vx_Vy_NoQuirk(m, x, y) ==
    LET flagged == SetV(m, FLAG, BitAnd(m.reg_v[x], 1))
    IN  Done(SetV(flagged, x, flagged.reg_v[x] \div 2))

\* 8xy6
SHR_Vx_Vy(m, x, y) ==
    IF ~m.shift_using_vy
    THEN LET flagged == SetV(m, FLAG, BitAnd(m.reg_v[x], 1))
         IN  Done(SetV(flagged, x, flagged.reg_v[x] \div 2))
    ELSE LET flagged == SetV(m, FLAG, BitAnd(m.reg_v[y], 1))
         IN  Done(SetV(flagged, x, flagged.reg_v[y] \div 2))

\* 8xy7
SUBN_Vx_Vy(m, x, y) ==
    LET flagged == SetV(m, FLAG, IF m.reg_v[x] > m.reg_v[y] THEN 0 ELSE 1)
    IN  Done(SetV(flagged, x, Sub(flagged.reg_v[y], flagged.reg_v[x], U8).val))

\* 8xyE
SHL_Vx_Vy(m, x, y) ==
    IF ~m.shift_using_vy
    THEN LET flagged == SetV(m, FLAG, BitAnd(m.reg_v[x], 128) \div 128)
         IN  Done(SetV(flagged, x, (flagged.reg_v[x] * 2) % U8))
    ELSE LET flagged == SetV(m, FLAG, BitAnd(m.reg_v[y], 128) \div 128)
         IN  Done(SetV(flagged, x, (flagged.reg_v[y] * 2) % U8))

\* 9xyn
SNE_Vx_Vy(m, x, y, n) ==
    Done(IF n = 0 /\ m.reg_v[x] # m.reg_v[y] THEN SkipNext(m) ELSE m)

\* Annn
LD_I_addr(m, nnn) == Done([m EXCEPT !.reg_i = nnn])

\* Bnnn
JP_V0_addr(m, nnn) == Done([m EXCEPT !.reg_pc = (nnn + m.reg_v[0]) % U16])

\* Cxkk: r is the byte the rng delivers
RND_Vx_byte(m, x, kk, r) == Done(SetV(m, x, BitAnd(r, kk)))

\* A variant of the inner loop of Dxyn that leaves a lit pixel lit where a
\* set sprite bit meets it
RECURSIVE DrawBits_KeepsLit(_, _, _, _, _)
DrawBits_KeepsLit(m, x, row, sprite, f) ==
    IF f >= 8 THEN Done(m)
    ELSE LET b == BitAnd(sprite, 128) \div 128
             sum == Add(m.reg_v[x], f, U8)
             col == sum.val % DISPLAY_WIDTH
             offset == row * DISPLAY_WIDTH + col
             drawn == IF b = 1
                      THEN IF m.display[offset] # 0
                           THEN [m EXCEPT !.reg_v[FLAG] = 1]
                           ELSE [m EXCEPT !.display[offset] = 1]
                      ELSE m
         IN  IF Overflows(sum) THEN Panic(m)
             ELSE DrawBits_KeepsLit(drawn, x, row, (sprite * 2) % U8, f + 1)

\* Dxyn, the inner loop `for f in 0 .. 8` from f on, for one sprite row.
\* reg_v[x] is read again for every bit, after the writes of reg_v[FLAG].
RECURSIVE DrawBits(_, _, _, _, _)
DrawBits(m, x, row, sprite, f) ==
    IF f >= 8 THEN Done(m)
    ELSE LET b == BitAnd(sprite, 128) \div 128
             sum == Add(m.reg_v[x], f, U8)
             col == sum.val % DISPLAY_WIDTH
             offset == row * DISPLAY_WIDTH + col
             drawn == IF b = 1
                      THEN IF m.display[offset] # 0
                           THEN [m EXCEPT !.display[offset] = 0, !.reg_v[FLAG] = 1]
                           ELSE [m EXCEPT !.display[offset] = 1]
                      ELSE m
         IN  IF Overflows(sum) THEN Panic(m)
             ELSE DrawBits(drawn, x, row, (sprite * 2) % U8, f + 1)

\* Dxyn, the outer loop `for c in 0 .. n` from c on.
RECURSIVE DrawRows(_, _, _, _, _)
DrawRows(m, x, y, n, c) ==
    IF c >= n THEN Done(m)
    ELSE LET addr == Add(m.reg_i, c, U16)
         IN  IF Overflows(addr) \/ addr.val >= MEMORY_SIZE THEN Panic(m)
             ELSE LET sprite == m.memory[addr.val]
                      row == (m.reg_v[y] + c) % DISPLAY_HEIGHT
                      bits == DrawBits(m, x, row, sprite, 0)
                  IN  IF bits.panic THEN bits
                      ELSE DrawRows(bits.m, x, y, n, c + 1)

\* Dxyn
DRW(m, x, y, n) == DrawRows(SetV(m, FLAG, 0), x, y, n, 0)

\* Ex9E
SKP_Vx(m, x) == Done(IF m.key_pressed = m.reg_v[x] THEN SkipNext(m) ELSE m)

\* ExA1
SKNP_Vx(m, x) == Done(IF m.key_pressed # m.reg_v[x] THEN SkipNext(m) ELSE m)

\* Fx07
LD_Vx_DT(m, x) == Done(SetV(m, x, m.reg_dt))

\* A variant of Fx0A that takes key 0 for "no key", as new() leaves the latch
LD_Vx_K_ZeroSentinel(m, x) ==
    IF m.key_pressed # 0
    THEN Done(SetV(m, x, m.key_pressed))
    ELSE Done([m EXCEPT !.reg_pc = m.reg_pc - 2])

\* Fx0A
LD_Vx_K(m, x) ==
    IF m.key_pressed # NO_KEY
    THEN Done(SetV(m, x, m.key_pressed))
    ELSE LET pc == Sub(m.reg_pc, 2, U16)
         IN  IF Overflows(pc) THEN Panic(m)
             ELSE Done([m EXCEPT !.reg_pc = pc.val])

\* Fx15
LD_DT_Vx(m, x) == Done([m EXCEPT !.reg_dt = m.reg_v[x]])

\* Fx18
LD_ST_Vx(m, x) == Done([m EXCEPT !.reg_st = m.reg_v[x]])

\* A variant of Fx1E that masks the sum before it tests it for the flag
ADD_I_Vx_MaskFirst(m, x) ==
    LET add == Add(m.reg_i, m.reg_v[x], U16)
        masked == add.val % I_MASK
    IN  IF Overflows(add) THEN Panic(m)
        ELSE Done([m EXCEPT !.reg_v[FLAG] = IF masked > I_MASK - 1 THEN 1 ELSE 0,
                            !.reg_i = masked])

\* Fx1E
ADD_I_Vx(m, x) ==
    LET add == Add(m.reg_i, m.reg_v[x], U16)
    IN  IF Overflows(add) THEN Panic(m)
        ELSE Done([m EXCEPT !.reg_v[FLAG] = IF add.val > I_MASK - 1 THEN 1 ELSE 0,
                            !.reg_i = add.val % I_MASK])

\* Fx29: the product is formed in u8 and only then widened to u16
LD_F_Vx(m, x) ==
    LET prod == Mul(m.reg_v[x], 5, U8)
    IN  IF Overflows(prod) THEN Panic(m)
        ELSE Done([m EXCEPT !.reg_i = prod.val % I_MASK])

\* memory[addr] = val, an indexing that panics outside the array
Store(res, addr, val) ==
    IF res.panic THEN res
    ELSE IF addr >= MEMORY_SIZE THEN Panic(res.m)
    ELSE Done([res.m EXCEPT !.memory[addr] = val])

\* A variant of Fx33 that stores the digits least significant first
LD_B_Vx_UnitsFirst(m, x) ==
    LET bcd == m.reg_v[x]
        unit == bcd % 10
        tens == (bcd \div 10) % 10
        hundreds == ((bcd \div 10) \div 10) % 10
        i == m.reg_i
    IN  Store(Store(Store(Done(m), i, unit), i + 1, tens), i + 2, hundreds)

\* A variant of Fx33 that stores the digits in the display array
LD_B_Vx_IntoDisplay(m, x) ==
    LET bcd == m.reg_v[x]
        unit == bcd % 10
        tens == (bcd \div 10) % 10
        hundreds == ((bcd \div 10) \div 10) % 10
        i == m.reg_i
    IN  IF i + 2 >= DISPLAY_WIDTH * DISPLAY_HEIGHT THEN Panic(m)
        ELSE Done([m EXCEPT !.display[i] = hundreds, !.display[i + 1] = tens,
                            !.display[i + 2] = unit])

\* Fx33
LD_B_Vx(m, x) ==
    LET bcd == m.reg_v[x]
        unit == bcd % 10
        tens == (bcd \div 10) % 10
        hundreds == ((bcd \div 10) \div 10) % 10
        i == m.reg_i
    IN  Store(Store(Store(Done(m), i, hundreds), i + 1, tens), i + 2, unit)

\* A variant of the increment below that advances reg_i by x
IncrementI_ByX(m, x) ==
    IF ~m.increment_i_on_ld THEN Done(m)
    ELSE LET sum == Add(m.reg_i, x, U16)
         IN  IF Overflows(sum) THEN Panic(m)
             ELSE Done([m EXCEPT !.reg_i = sum.val])

\* reg_i += (x + 1) when increment_i_on_ld is set
IncrementI(m, x) ==
    IF ~m.increment_i_on_ld THEN Done(m)
    ELSE LET sum == Add(m.reg_i, x + 1, U16)
         IN  IF Overflows(sum) THEN Panic(m)
             ELSE Done([m EXCEPT !.reg_i = sum.val])

\* Fx55, the loop `for a in 0 .. x+1` from a on
RECURSIVE StoreRegs(_, _, _, _)
StoreRegs(m, i, x, a) ==
    IF a > x THEN Done(m)
    ELSE IF i + a >= MEMORY_SIZE THEN Panic(m)
    ELSE StoreRegs([m EXCEPT !.memory[i + a] = m.reg_v[a]], i, x, a + 1)

\* Fx55
LD_mI_Vx(m, x) ==
    LET stored == StoreRegs(m, m.reg_i, x, 0)
    IN  IF stored.panic THEN stored ELSE IncrementI(stored.m, x)

\* Fx65, the loop `for a in 0 .. x+1` from a on
RECURSIVE LoadRegs(_, _, _, _)
LoadRegs(m, i, x, a) ==
    IF a > x THEN Done(m)
    ELSE IF i + a >= MEMORY_SIZE THEN Panic(m)
    ELSE LoadRegs([m EXCEPT !.reg_v[a] = m.memory[i + a]], i, x, a + 1)

\* Fx65
LD_Vx_mI(m, x) ==
    LET loaded == LoadRegs(m, m.reg_i, x, 0)
    IN  IF loaded.panic THEN loaded ELSE IncrementI(loaded.m, x)

----------------------------------------------------------------------------
(* Chip8::step *)

\* The word fetched at reg_pc (big-endian), or -1 when the fetch indexes
\* memory out of bounds.
Fetch(m) ==
    IF m.reg_pc >= MEMORY_SIZE \/ m.reg_pc + 1 >= MEMORY_SIZE THEN -1
    ELSE m.memory[m.reg_pc] * 256 + m.memory[m.reg_pc + 1]

\* The decoded fields
Nnn(opcode) == opcode % 4096
Xh(opcode) == opcode \div 4096
X(opcode) == (opcode \div 256) % 16
Y(opcode) == (opcode \div 16) % 16
Kk(opcode) == opcode % 256
N(opcode) == opcode % 16

\* The match on xh and its inner matches, on the struct m with reg_pc
\* already advanced.
Execute(m, opcode, r) ==
    LET nnn == Nnn(opcode)
        xh == Xh(opcode)
        x == X(opcode)
        y == Y(opcode)
        kk == Kk(opcode)
        n == N(opcode)
    IN  CASE xh = 0 ->
               (CASE opcode = 224 -> CLS(m)
                  [] opcode = 238 -> RET(m)
                  [] OTHER -> Unknown(m))
          [] xh = 1 -> JP(m, nnn)
          [] xh = 2 -> CALL(m, nnn)
          [] xh = 3 -> SE_Vx_byte(m, x, kk)
          [] xh = 4 -> SNE_Vx_byte(m, x, kk)
          [] xh = 5 -> SE_Vx_Vy(m, x, y, n)
          [] xh = 6 -> LD_Vx_byte(m, x, kk)
          [] xh = 7 -> ADD_Vx_byte(m, x, kk)
          [] xh = 8 ->
               (CASE n = 0 -> LD_Vx_Vy(m, x, y)
                  [] n = 1 -> OR_Vx_Vy(m, x, y)
                  [] n = 2 -> AND_Vx_Vy(m, x, y)
                  [] n = 3 -> XOR_Vx_Vy(m, x, y)
                  [] n = 4 -> ADD_Vx_Vy(m, x, y)
                  [] n = 5 -> SUB_Vx_Vy(m, x, y)
                  [] n = 6 -> SHR_Vx_Vy(m, x, y)
                  [] n = 7 -> SUBN_Vx_Vy(m, x, y)
                  [] n = 14 -> SHL_Vx_Vy(m, x, y)
                  [] OTHER -> Unknown(m))
          [] xh = 9 -> SNE_Vx_Vy(m, x, y, n)
          [] xh = 10 -> LD_I_addr(m, nnn)
          [] xh = 11 -> JP_V0_addr(m, nnn)
          [] xh = 12 -> RND_Vx_byte(m, x, kk, r)
          [] xh = 13 -> DRW(m, x, y, n)
          [] xh = 14 ->
               (CASE kk = 158 -> SKP_Vx(m, x)
                  [] kk = 161 -> SKNP_Vx(m, x)
                  [] OTHER -> Unknown(m))
          [] xh = 15 ->
               (CASE kk = 7 -> LD_Vx_DT(m, x)
                  [] kk = 10 -> LD_Vx_K(m, x)
                  [] kk = 21 -> LD_DT_Vx(m, x)
                  [] kk = 24 -> LD_ST_Vx(m, x)
                  [] kk = 30 -> ADD_I_Vx(m, x)
                  [] kk = 41 -> LD_F_Vx(m, x)
                  [] kk = 51 -> LD_B_Vx(m, x)
                  [] kk = 85 -> LD_mI_Vx(m, x)
                  [] kk = 101 -> LD_Vx_mI(m, x)
                  [] OTHER -> Unknown(m))
          [] OTHER -> Unknown(m)

\* step on the struct m; r is the byte the rng would deliver.
step(m, r) ==
    LET opcode == Fetch(m)
        pc == Add(m.reg_pc, 2, U16)
    IN  IF opcode = -1 THEN Panic(m)
        ELSE IF Overflows(pc) THEN Panic(m)
        ELSE Execute([m EXCEPT !.reg_pc = pc.val], opcode, r)

----------------------------------------------------------------------------
(* The host's calls (src/src/main.rs) as actions.  call records the last
   one: its name and inputs, what it returned or printed, and, for a run of
   consecutive update_timers calls, the length of the run and the timers'
   values when the run began. *)

\* No call is waiting for a return
NoCall == [at |-> -1, sp |-> -1]

Call(op) ==
    [ op |-> op, opcode |-> -1, key |-> -1, file |-> <<>>, n |-> -1,
      ret |-> "none", report |-> FALSE, count |-> 0, dt0 |-> 0, st0 |-> 0,
      matching |-> NoCall ]

\* A file as boot_rom sees it
File(bytes) == [exists |-> TRUE, bytes |-> bytes]

NoFile == [exists |-> FALSE, bytes |-> <<>>]

\* boot_rom(file), of which read delivers n bytes.  main.rs applies
\* .expect to the Result, so an Err ends the process as a panic does.
BootRom(file, n) ==
    /\ status = "running"
    /\ \E res \in {boot_rom(chip8, file, n)} :
         /\ chip8' = IF res.panic THEN chip8 ELSE res.m
         /\ status' = IF res.panic \/ res.ret = "Err" THEN "panicked" ELSE "running"
         /\ call' = [Call("boot_rom") EXCEPT !.file = file.bytes, !.n = n,
                                             !.ret = res.ret]
    /\ prev' = chip8
    /\ prev2' = prev
    /\ call2' = call
    /\ loads' = loads + 1
    /\ pending' = <<>>
    /\ UNCHANGED overflow_checks

\* main.rs:77, the load that follows construction, of a program whose
\* bytes the read delivers in full
FirstBoot(bytes) ==
    /\ call.op = "new"
    /\ \E file \in {File(bytes)} : \E n \in {Len(file.bytes)} : BootRom(file, n)

\* The bytes the rng can deliver to the instruction about to run
RndInputs(m, bytes) ==
    IF Fetch(m) # -1 /\ Xh(Fetch(m)) = 12 THEN bytes ELSE {0}

\* The calls that have run and not yet returned, oldest first, each with
\* the address it ran at and the stack pointer it found: the call the
\* next return matches is the last
Matching == IF pending = <<>> THEN NoCall ELSE pending[Len(pending)]

\* pending once the instruction opcode has run at chip8.reg_pc
Awaiting(opcode) ==
    IF opcode # -1 /\ Xh(opcode) = 2
    THEN Append(pending, [at |-> chip8.reg_pc, sp |-> chip8.reg_sp])
    ELSE IF opcode = 238 /\ pending # <<>>
    THEN SubSeq(pending, 1, Len(pending) - 1)
    ELSE pending

\* main.rs:235
Step(bytes) ==
    /\ status = "running"
    /\ call.op # "new"
    /\ \E r \in RndInputs(chip8, bytes) :
         \E res \in {step(chip8, r)} :
            /\ chip8' = IF res.panic THEN chip8 ELSE res.m
            /\ status' = IF res.panic THEN "panicked" ELSE "running"
            /\ call' = [Call("step") EXCEPT !.opcode = Fetch(chip8),
                                            !.report = res.report,
                                            !.matching = Matching]
            /\ pending' = IF res.panic THEN pending
                           ELSE Awaiting(Fetch(chip8))
    /\ prev' = chip8
    /\ prev2' = prev
    /\ call2' = call
    /\ UNCHANGED <<overflow_checks, loads>>

\* main.rs:262, at most max calls in a row
UpdateTimers(max) ==
    /\ status = "running"
    /\ call.op # "new"
    /\ call.op = "update_timers" => call.count < max
    /\ chip8' = update_timers(chip8)
    /\ call' = IF call.op = "update_timers"
               THEN [call EXCEPT !.count = call.count + 1]
               ELSE [Call("update_timers") EXCEPT !.count = 1,
                                                 !.dt0 = chip8.reg_dt,
                                                 !.st0 = chip8.reg_st]
    /\ prev' = chip8
    /\ prev2' = prev
    /\ call2' = call
    /\ UNCHANGED <<status, overflow_checks, loads, pending>>

\* main.rs:199-217
SetKeyPressed(keys) ==
    /\ status = "running"
    /\ call.op # "new"
    /\ \E key \in keys :
         /\ chip8' = set_key_pressed(chip8, key)
         /\ call' = [Call("set_key_pressed") EXCEPT !.key = key]
    /\ prev' = chip8
    /\ prev2' = prev
    /\ call2' = call
    /\ UNCHANGED <<status, overflow_checks, loads, pending>>

\* main.rs:178-180, a click on the checkbox
ToggleShiftUsingVy ==
    /\ status = "running"
    /\ call.op # "new"
    /\ chip8' = [chip8 EXCEPT !.shift_using_vy = ~chip8.shift_using_vy]
    /\ call' = Call("shift_using_vy")
    /\ prev' = chip8
    /\ prev2' = prev
    /\ call2' = call
    /\ UNCHANGED <<status, overflow_checks, loads, pending>>

\* main.rs:181-183, a click on the checkbox
ToggleIncrementIOnLd ==
    /\ status = "running"
    /\ call.op # "new"
    /\ chip8' = [chip8 EXCEPT !.increment_i_on_ld = ~chip8.increment_i_on_ld]
    /\ call' = Call("increment_i_on_ld")
    /\ prev' = chip8
    /\ prev2' = prev
    /\ call2' = call
    /\ UNCHANGED <<status, overflow_checks, loads, pending>>

\* main.rs:76: the struct as constructed, in either build profile
Init ==
    /\ chip8 = new
    /\ prev = new
    /\ call = Call("new")
    /\ prev2 = new
    /\ call2 = Call("new")
    /\ status = "running"
    /\ overflow_checks \in BOOLEAN
    /\ loads = 0
    /\ pending = <<>>

----------------------------------------------------------------------------
(* Programs: the ROM files the specifications below load *)

Regs == 0 .. NUM_REGS - 1

\* The two bytes of the instruction with nibbles a b c d
Ins(a, b, c, d) == <<a * 16 + b, c * 16 + d>>

\* 6xkk
InsLd(x, kk) == <<96 + x, kk>>

\* 1nnn
InsJp(nnn) == <<16 + (nnn \div 256), nnn % 256>>

\* body, followed by a jump to itself: the program stays there
Halted(body) == body \o InsJp(ROMTOP + Len(body))

\* The operand pairs (a, b) the add and subtract programs load into
\* (Vx, Vy): every pair of these values
AluVals == <<0, 1, 127, 128, 255>>

AluPairs ==
    [k \in 1 .. Len(AluVals) * Len(AluVals) |->
        <<AluVals[((k - 1) \div Len(AluVals)) + 1], AluVals[((k - 1) % Len(AluVals)) + 1]>>]

\* The operand pairs of the shift programs: both end bits, set and clear,
\* with Vx and Vy different where the quirk matters
ShiftPairs == <<<<3, 128>>, <<128, 3>>, <<255, 0>>, <<0, 255>>, <<1, 64>>, <<129, 129>>>>

\* For each pair (a, b) of pairs from the k-th on: Vx := a; Vy := b; 8xyn
RECURSIVE AluBody(_, _, _, _, _)
AluBody(x, y, n, pairs, k) ==
    IF k > Len(pairs) THEN <<>>
    ELSE InsLd(x, pairs[k][1]) \o InsLd(y, pairs[k][2]) \o Ins(8, x, y, n)
           \o AluBody(x, y, n, pairs, k + 1)

AluProgram(x, y, n, pairs) == Halted(AluBody(x, y, n, pairs, 1))

\* The last call was a step that fetched an instruction of family xh
Ran(xh) == call.op = "step" /\ call.opcode # -1 /\ Xh(call.opcode) = xh

\* The last call was a step that fetched 8xyn
RanAlu(n) == Ran(8) /\ N(call.opcode) = n

----------------------------------------------------------------------------
(* 8xy4 *)

BootAdd == \E x \in Regs, y \in Regs : FirstBoot(AluProgram(x, y, 4, AluPairs))

NextAdd ==
    \/ BootAdd
    \/ Step({0})

SpecAdd == Init /\ [][NextAdd]_vars

\* C7: add-with-carry (8xy4), for all X and Y in 0..15: the step completes,
\* the flag register ends 1 iff old regX + old regY > 255 and 0 otherwise,
\* and for X # 15 regX ends (old regX + old regY) mod 256.
C7_AddWithCarry ==
    RanAlu(4) =>
        LET x == X(call.opcode)
            y == Y(call.opcode)
            sum == prev.reg_v[x] + prev.reg_v[y]
        IN  /\ status = "running"
            /\ chip8.reg_v[FLAG] = (IF sum > 255 THEN 1 ELSE 0)
            /\ x # FLAG => chip8.reg_v[x] = sum % 256

\* An add into the flag register itself that carried
C7_Witness ==
    /\ RanAlu(4)
    /\ X(call.opcode) = FLAG
    /\ Y(call.opcode) # FLAG
    /\ prev.reg_v[FLAG] + prev.reg_v[Y(call.opcode)] > 255
    /\ prev.reg_v[FLAG] = 128
    /\ chip8.reg_v[FLAG] = 1

----------------------------------------------------------------------------
(* 8xy5 and 8xy7 *)

BootSub ==
    \E x \in Regs, y \in Regs, n \in {5, 7} : FirstBoot(AluProgram(x, y, n, AluPairs))

NextSub ==
    \/ BootSub
    \/ Step({0})

SpecSub == Init /\ [][NextSub]_vars

\* C8: both subtract variants, for all X and Y in 0..15, from the operand
\* values held before the instruction: 8xy5 leaves the flag register 1 iff
\* old regX >= old regY and, for X # 15, regX = (old regX - old regY) mod
\* 256; 8xy7 leaves the flag register 1 iff old regY >= old regX and, for
\* X # 15, regX = (old regY - old regX) mod 256.
C8_SubtractFromOldOperands ==
    LET x == X(call.opcode)
        y == Y(call.opcode)
        vx == prev.reg_v[x]
        vy == prev.reg_v[y]
    IN  /\ RanAlu(5) =>
              /\ status = "running"
              /\ chip8.reg_v[FLAG] = (IF vx >= vy THEN 1 ELSE 0)
              /\ x # FLAG => chip8.reg_v[x] = (vx - vy) % 256
        /\ RanAlu(7) =>
              /\ status = "running"
              /\ chip8.reg_v[FLAG] = (IF vy >= vx THEN 1 ELSE 0)
              /\ x # FLAG => chip8.reg_v[x] = (vy - vx) % 256

----------------------------------------------------------------------------
(* 8xy6 and 8xyE *)

\* regY is regX itself, its neighbour, or the flag register
BootShift ==
    \E x \in Regs, n \in {6, 14} :
        \E y \in {x, (x + 1) % NUM_REGS, FLAG} :
            FirstBoot(AluProgram(x, y, n, ShiftPairs))

NextShift ==
    \/ BootShift
    \/ Step({0})
    \/ ToggleShiftUsingVy

SpecShift == Init /\ [][NextShift]_vars

\* C9: the shifts, for X and Y both different from 15.  With shift_using_vy
\* off, shift-right sets flag = old regX bit 0 and regX = old regX >> 1,
\* shift-left sets flag = old regX bit 7 and regX = (old regX << 1) mod 256,
\* and regY (a register other than regX) is left as it was; with it on,
\* shift-right sets flag = old regY bit 0 and regX = old regY >> 1,
\* shift-left sets flag = old regY bit 7 and regX = (old regY << 1) mod 256.
C9_ShiftQuirk ==
    (RanAlu(6) \/ RanAlu(14)) =>
        LET x == X(call.opcode)
            y == Y(call.opcode)
            src == IF prev.shift_using_vy THEN prev.reg_v[y] ELSE prev.reg_v[x]
        IN  (x # FLAG /\ y # FLAG) =>
              /\ status = "running"
              /\ RanAlu(6) => /\ chip8.reg_v[FLAG] = src % 2
                              /\ chip8.reg_v[x] = src \div 2
              /\ RanAlu(14) => /\ chip8.reg_v[FLAG] = src \div 128
                               /\ chip8.reg_v[x] = (src * 2) % 256
              /\ (~prev.shift_using_vy /\ y # x) => chip8.reg_v[y] = prev.reg_v[y]

\* A shift-right with the quirk on that took its operand from a regY
\* different from regX
C9_Witness ==
    /\ RanAlu(6)
    /\ prev.shift_using_vy
    /\ X(call.opcode) = 2
    /\ Y(call.opcode) = 3
    /\ prev.reg_v[2] = 128
    /\ prev.reg_v[3] = 3
    /\ chip8.reg_v[2] = 1
    /\ chip8.reg_v[FLAG] = 1

----------------------------------------------------------------------------
(* Fx0A *)

\* Keys main.rs passes to set_key_pressed (any of 0 .. 15, or 0xff): the
\* ends of the range, one in between, and no key
HostKeys == {0, 5, 15, NO_KEY}

\* Vx := 7; Fx0A
KeyProgram(x) == Halted(InsLd(x, 7) \o Ins(15, x, 0, 10))

BootKey == \E x \in Regs : FirstBoot(KeyProgram(x))

NextKey ==
    \/ BootKey
    \/ Step({0})
    \/ SetKeyPressed(HostKeys)

SpecKey == Init /\ [][NextKey]_vars

\* The last call was a step that fetched Fx0A
RanLdK == Ran(15) /\ Kk(call.opcode) = 10

\* C5: a step that executes Fx0A at address A while the latch is the no-key
\* sentinel leaves the program counter at A and changes no register (so
\* every further step finds the same instruction); one that executes it
\* while a key k is latched sets regX = k, leaves the other registers and
\* sets the program counter to A + 2.
C5_BlockingKeyLoad ==
    RanLdK =>
        LET x == X(call.opcode)
        IN  /\ status = "running"
            /\ prev.key_pressed = NO_KEY =>
                  /\ chip8.reg_pc = prev.reg_pc
                  /\ chip8.reg_v = prev.reg_v
                  /\ Fetch(chip8) = call.opcode
            /\ prev.key_pressed # NO_KEY =>
                  /\ chip8.reg_pc = prev.reg_pc + 2
                  /\ chip8.reg_v = [prev.reg_v EXCEPT ![x] = prev.key_pressed]

\* Key 0 latched after the instruction had waited: the step takes it
C5_Witness ==
    /\ RanLdK
    /\ prev.key_pressed = 0
    /\ prev.reg_v[X(call.opcode)] = 7
    /\ chip8.reg_v[X(call.opcode)] = 0
    /\ chip8.reg_pc = prev.reg_pc + 2

----------------------------------------------------------------------------
(* update_timers *)

\* A bound of the model: the longest run of consecutive update_timers calls
MaxTicks == 61

\* The values the timer programs store into the timers
DelayVals == {0, 30}

SoundVals == {0, 1}

\* V0 := t; DT := V0; V1 := u; ST := V1
TimerProgram(t, u) ==
    Halted(InsLd(0, t) \o Ins(15, 0, 1, 5) \o InsLd(1, u) \o Ins(15, 1, 1, 8))

BootTimers == \E t \in DelayVals, u \in SoundVals : FirstBoot(TimerProgram(t, u))

NextTimers ==
    \/ BootTimers
    \/ Step({0})
    \/ UpdateTimers(MaxTicks)

SpecTimers == Init /\ [][NextTimers]_vars

Max(a, b) == IF a >= b THEN a ELSE b

\* C6: update_timers lowers each timer by exactly 1 when it is not 0,
\* leaves a timer that is 0 at 0, and changes nothing else; so after a run of
\* k calls a timer that held t holds max(0, t - k).
C6_TimersSaturate ==
    call.op = "update_timers" =>
        /\ status = "running"
        /\ chip8.reg_dt = (IF prev.reg_dt > 0 THEN prev.reg_dt - 1 ELSE 0)
        /\ chip8.reg_st = (IF prev.reg_st > 0 THEN prev.reg_st - 1 ELSE 0)
        /\ chip8 = [prev EXCEPT !.reg_dt = chip8.reg_dt, !.reg_st = chip8.reg_st]
        /\ chip8.reg_dt = Max(0, call.dt0 - call.count)
        /\ chip8.reg_st = Max(0, call.st0 - call.count)

\* 60 calls on a delay timer of 30
C6_Witness ==
    /\ call.op = "update_timers"
    /\ call.count = 60
    /\ call.dt0 = 30
    /\ call.st0 = 1
    /\ chip8.reg_dt = 0
    /\ chip8.reg_st = 0

----------------------------------------------------------------------------
(* boot_rom *)

\* 2nnn
InsCall(nnn) == <<32 + (nnn \div 256), nnn % 256>>

\* Annn
InsLdI(nnn) == <<160 + (nnn \div 256), nnn % 256>>

\* A program that leaves no part of the struct as boot_rom sets it:
\* V0 := 5; VF := 9; I := 0; draw glyph 0 at (5, 5); V1 := 30; DT := V1;
\* ST := V1; I := 0x300; store V0..V1 there; call the halt that follows
DirtyProgram ==
    Halted(InsLd(0, 5) \o InsLd(FLAG, 9) \o InsLdI(0) \o Ins(13, 0, 0, 5)
             \o InsLd(1, 30) \o Ins(15, 1, 1, 5) \o Ins(15, 1, 1, 8)
             \o InsLdI(768) \o Ins(15, 1, 5, 5) \o InsCall(ROMTOP + 20))

\* V1 := 1
ShortProgram == Halted(InsLd(1, 1))

\* A halt followed by filler, n bytes in all
Filled(n) == [i \in 1 .. n |-> IF i <= 2 THEN InsJp(ROMTOP)[i] ELSE 170]

\* The largest program that fits, and the smallest that does not
LargestProgram == Filled(MEMORY_SIZE - ROMTOP)

OversizedProgram == Filled(MEMORY_SIZE - ROMTOP + 1)

LoadFiles ==
    { File(DirtyProgram), File(ShortProgram), File(LargestProgram),
      File(OversizedProgram), NoFile }

\* A bound of the model: the number of boot_rom calls in a run
MaxLoads == 2

\* main.rs:77, 168, 222: a load, the first or a later one.  The read delivers
\* the whole file, or, of the largest one, no more than its first instruction.
Load ==
    /\ loads < MaxLoads
    /\ \/ \E file \in LoadFiles : BootRom(file, Len(file.bytes))
       \/ BootRom(File(LargestProgram), 2)

NextLoad ==
    \/ Load
    \/ Step({0})
    \/ SetKeyPressed({5})

SpecLoad == Init /\ [][NextLoad]_vars

\* The last call was a boot_rom that returned Ok
Loaded == call.op = "boot_rom" /\ call.ret = "Ok"

\* C1: after a successful load of a program P (the bytes the read delivered,
\* which are the whole file when the read is complete), from any prior state:
\* P fits, memory from 0x200 on holds P byte for byte, the 16 registers and
\* the 16 stack slots are 0, the stack pointer, the index register and both
\* timers are 0, the program counter is 0x200, the input latch is the no-key
\* sentinel and every pixel is 0.
C1_LoadResets ==
    Loaded =>
        /\ status = "running"
        /\ call.n <= MEMORY_SIZE - ROMTOP
        /\ \A i \in 1 .. call.n : chip8.memory[ROMTOP + i - 1] = call.file[i]
        /\ \A r \in 0 .. NUM_REGS - 1 : chip8.reg_v[r] = 0
        /\ \A k \in 0 .. STACK_SIZE - 1 : chip8.stack[k] = 0
        /\ chip8.reg_sp = 0
        /\ chip8.reg_i = 0
        /\ chip8.reg_dt = 0
        /\ chip8.reg_st = 0
        /\ chip8.reg_pc = ROMTOP
        /\ chip8.key_pressed = NO_KEY
        /\ \A p \in 0 .. DISPLAY_WIDTH * DISPLAY_HEIGHT - 1 : chip8.display[p] = 0

\* A load of the largest program over a machine whose every part had changed
C1_Witness ==
    /\ Loaded
    /\ call.n = MEMORY_SIZE - ROMTOP
    /\ call.n = Len(call.file)
    /\ prev.reg_v[0] = 5
    /\ prev.stack[1] # 0
    /\ prev.reg_sp = 1
    /\ prev.reg_i # 0
    /\ prev.reg_dt # 0
    /\ prev.reg_st # 0
    /\ prev.reg_pc # ROMTOP
    /\ prev.key_pressed = 5
    /\ prev.display # BlankDisplay
    /\ prev.memory[ROMTOP] # chip8.memory[ROMTOP]

\* C2: a load of a program longer than 4096 - 0x200 bytes returns an error
\* to the caller, and leaves the struct as it was or at the empty baseline.
C2_OversizedLoadReturnsError ==
    (call.op = "boot_rom" /\ Len(call.file) > MEMORY_SIZE - ROMTOP) =>
        /\ call.ret = "Err"
        /\ chip8 = prev \/ chip8 = new

\* C19: after every successful load, whatever ran before it, memory outside
\* the bytes just loaded equals the construction baseline: the charset in
\* 0x000 .. 0x04F and 0 in every other byte outside [0x200, 0x200 + len).
C19_LoadRestoresBaseline ==
    Loaded =>
        \A a \in 0 .. MEMORY_SIZE - 1 :
            (a < ROMTOP \/ a >= ROMTOP + call.n) => chip8.memory[a] = BaselineMemory[a]

----------------------------------------------------------------------------
(* The call stack *)

\* A bound of the model: the longest chain of nested calls a program makes
MaxCalls == 17

\* k nested calls, each to the pair that follows it, then k returns: the
\* i-th pair (from 0) is at 0x200 + 4 i and holds a call of the next pair
\* and the instruction the matching return comes back to, which is a return
\* too, but for the first pair's, a halt.  After the k-th pair, a return.
RECURSIVE CallPairs(_, _)
CallPairs(k, i) ==
    IF i >= k THEN <<>>
    ELSE InsCall(ROMTOP + 4 * (i + 1))
           \o (IF i = 0 THEN InsJp(ROMTOP + 2) ELSE Ins(0, 0, 14, 14))
           \o CallPairs(k, i + 1)

CallChain(k) == CallPairs(k, 0) \o Ins(0, 0, 14, 14)

BootStack == \E k \in 1 .. MaxCalls : FirstBoot(CallChain(k))

NextStack ==
    \/ BootStack
    \/ Step({0})

SpecStack == Init /\ [][NextStack]_vars

\* The last call was a step that fetched 00EE
RanRet == call.op = "step" /\ call.opcode = 238

\* C4: the stack holds 16 return addresses.  From a fresh load, a call made
\* while fewer than 16 addresses are held completes, so 16 nested calls do;
\* and the returns that follow restore the saved program counters last-in
\* first-out (in these programs the d-th nested call is at 0x200 + 4 (d - 1),
\* so the return at depth d comes back to the address 2 after it).
C4_SixteenCallsAndReturns ==
    /\ (Ran(2) /\ prev.reg_sp < STACK_SIZE) =>
          /\ status = "running"
          /\ chip8.reg_sp = prev.reg_sp + 1
    /\ (RanRet /\ prev.reg_sp \in 1 .. STACK_SIZE) =>
          /\ status = "running"
          /\ chip8.reg_pc = ROMTOP + 4 * (prev.reg_sp - 1) + 2
          /\ chip8.reg_sp = prev.reg_sp - 1

----------------------------------------------------------------------------
(* Memory accesses of step *)

\* jump to 0xFFF: the fetch there reads 0xFFF and 0x1000
FetchAtTop == InsJp(4095)

\* I := 0xFFF; draw 2 rows from I
DrawAtTop == Halted(InsLdI(4095) \o Ins(13, 0, 0, 2))

\* V0 := 255; I := 0xFFE; store-bcd V0
BcdAtTop == Halted(InsLd(0, 255) \o InsLdI(4094) \o Ins(15, 0, 3, 3))

\* I := 0xFFF; store V0..V1; I := 0xFFF; load V0..V1
BlockAtTop ==
    Halted(InsLdI(4095) \o Ins(15, 1, 5, 5) \o InsLdI(4095) \o Ins(15, 1, 6, 5))

\* I := 0xFF0; store V0..VF, then again where I then is; wait for a key
BlockBelowTop ==
    Halted(InsLdI(4080) \o Ins(15, 15, 5, 5) \o Ins(15, 15, 5, 5) \o Ins(15, 0, 0, 10))

MemPrograms == {FetchAtTop, DrawAtTop, BcdAtTop, BlockAtTop, BlockBelowTop}

BootMem == \E bytes \in MemPrograms : FirstBoot(bytes)

NextMem ==
    \/ BootMem
    \/ Step({0})
    \/ UpdateTimers(1)
    \/ SetKeyPressed({5, NO_KEY})
    \/ ToggleIncrementIOnLd

SpecMem == Init /\ [][NextMem]_vars

\* C3: in every state reached from a load by step, update_timers and
\* set_key_pressed calls, with any program and quirk setting, step completes:
\* every memory access it makes is at an address in 0 .. 4095.
C3_StepNeverAborts == call.op = "step" => status = "running"

----------------------------------------------------------------------------
(* Dxyn *)

\* The coordinates (a, b) the draw programs load into (Vx, Vy): the origin,
\* inside the screen, across its right and bottom edges, and past 255 - 7
DrawCoords == <<<<0, 0>>, <<5, 5>>, <<62, 30>>, <<250, 1>>>>

\* The rows of a glyph of the character set
GLYPH_ROWS == 5

\* For each pair (a, b) of coords from the k-th on: Vx := a; Vy := b; draw
\* the glyph at I; Vx := a; Vy := b; draw it again, over itself
RECURSIVE DrawBody(_, _, _, _)
DrawBody(x, y, coords, k) ==
    IF k > Len(coords) THEN <<>>
    ELSE InsLd(x, coords[k][1]) \o InsLd(y, coords[k][2])
           \o Ins(13, x, y, GLYPH_ROWS)
           \o InsLd(x, coords[k][1]) \o InsLd(y, coords[k][2])
           \o Ins(13, x, y, GLYPH_ROWS)
           \o DrawBody(x, y, coords, k + 1)

\* I := the glyph of 2, then the draws
DrawProgram(x, y) == Halted(InsLdI(2 * GLYPH_ROWS) \o DrawBody(x, y, DrawCoords, 1))

\* regY is regX itself, its neighbour, or the flag register
BootDraw ==
    \E x \in Regs :
        \E y \in {x, (x + 1) % NUM_REGS, FLAG} :
            FirstBoot(DrawProgram(x, y))

NextDraw ==
    \/ BootDraw
    \/ Step({0})

SpecDraw == Init /\ [][NextDraw]_vars

\* The sprite bit of row r, column c (most significant bit first) of the
\* sprite the struct m has at its index register
SpriteBit(m, r, c) == (m.memory[m.reg_i + r] \div (2 ^ (7 - c))) % 2

\* The pixel that bit addresses when the sprite is placed at (vx, vy)
PixelAt(vx, vy, r, c) ==
    ((vy + r) % DISPLAY_HEIGHT) * DISPLAY_WIDTH + ((vx + c) % DISPLAY_WIDTH)

\* C10: draw (Dxyn), for all X and Y in 0..15 and all register values: the
\* step completes; with vx and vy the values regX and regY held when the
\* instruction started, every set bit (r, c) of the sprite at the index
\* register flips the pixel at column (vx + c) mod 64, row (vy + r) mod 32;
\* every other pixel is unchanged; the flag register ends 1 iff some pixel
\* went from 1 to 0, and 0 otherwise.
C10_DrawFromOldCoordinates ==
    Ran(13) =>
        LET x == X(call.opcode)
            y == Y(call.opcode)
            n == N(call.opcode)
            vx == prev.reg_v[x]
            vy == prev.reg_v[y]
            bits == {rc \in (0 .. n - 1) \X (0 .. 7) : SpriteBit(prev, rc[1], rc[2]) = 1}
            flipped == {PixelAt(vx, vy, rc[1], rc[2]) : rc \in bits}
        IN  /\ status = "running"
            /\ \A p \in flipped : chip8.display[p] = 1 - prev.display[p]
            /\ \A p \in (0 .. DISPLAY_WIDTH * DISPLAY_HEIGHT - 1) \ flipped :
                   chip8.display[p] = prev.display[p]
            /\ chip8.reg_v[FLAG] = (IF \E p \in flipped : prev.display[p] = 1
                                    THEN 1 ELSE 0)

----------------------------------------------------------------------------
(* Dxyn, twice *)

\* For each pair (a, b) of coords from the k-th on: Vx := a; Vy := b; draw
\* the glyph of 2 twice, on the blank screen; draw the glyph of 0 once; draw
\* the glyph of 2 twice again, over it
RECURSIVE RedrawBody(_, _, _, _)
RedrawBody(x, y, coords, k) ==
    IF k > Len(coords) THEN <<>>
    ELSE InsLd(x, coords[k][1]) \o InsLd(y, coords[k][2])
           \o InsLdI(2 * GLYPH_ROWS)
           \o Ins(13, x, y, GLYPH_ROWS) \o Ins(13, x, y, GLYPH_ROWS)
           \o InsLdI(0) \o Ins(13, x, y, GLYPH_ROWS)
           \o InsLdI(2 * GLYPH_ROWS)
           \o Ins(13, x, y, GLYPH_ROWS) \o Ins(13, x, y, GLYPH_ROWS)
           \o Ins(0, 0, 14, 0)
           \o RedrawBody(x, y, coords, k + 1)

RedrawProgram(x, y) == Halted(RedrawBody(x, y, DrawCoords, 1))

\* regX and regY are not the flag register; regY is regX or its neighbour
BootRedraw ==
    \E x \in 0 .. FLAG - 1 :
        \E y \in {x, (x + 1) % FLAG} :
            FirstBoot(RedrawProgram(x, y))

NextRedraw ==
    \/ BootRedraw
    \/ Step({0})

SpecRedraw == Init /\ [][NextRedraw]_vars

\* The last two calls were steps that fetched the same Dxyn, with X and Y
\* not the flag register, and found the same index register, the same
\* coordinates and the same sprite bytes
DrewTwice ==
    /\ Ran(13)
    /\ call2.op = "step"
    /\ call2.opcode = call.opcode
    /\ X(call.opcode) # FLAG
    /\ Y(call.opcode) # FLAG
    /\ prev2.reg_i = prev.reg_i
    /\ prev2.reg_v[X(call.opcode)] = prev.reg_v[X(call.opcode)]
    /\ prev2.reg_v[Y(call.opcode)] = prev.reg_v[Y(call.opcode)]
    /\ \A r \in 0 .. N(call.opcode) - 1 :
          prev2.memory[prev2.reg_i + r] = prev.memory[prev.reg_i + r]

\* The pixels the set bits of the sprite address, from the struct m about to
\* execute opcode
SpritePixels(m, opcode) ==
    { PixelAt(m.reg_v[X(opcode)], m.reg_v[Y(opcode)], rc[1], rc[2]) :
        rc \in {rc \in (0 .. N(opcode) - 1) \X (0 .. 7) :
                   SpriteBit(m, rc[1], rc[2]) = 1} }

\* C11: drawing the same sprite twice at the same coordinates (X and Y not
\* the flag register) leaves the framebuffer exactly as it was before the
\* first draw; on a blank framebuffer the first draw turns the sprite's set
\* pixels on with flag = 0, and the second turns them off with flag = 1
\* (for a sprite with a set bit).
C11_DrawTwiceRestores ==
    DrewTwice =>
        LET pixels == SpritePixels(prev2, call.opcode)
        IN  /\ status = "running"
            /\ chip8.display = prev2.display
            /\ (prev2.display = BlankDisplay /\ pixels # {}) =>
                  /\ \A p \in 0 .. DISPLAY_WIDTH * DISPLAY_HEIGHT - 1 :
                        prev.display[p] = (IF p \in pixels THEN 1 ELSE 0)
                  /\ prev.reg_v[FLAG] = 0
                  /\ chip8.display = BlankDisplay
                  /\ chip8.reg_v[FLAG] = 1

\* The glyph of 2 drawn twice over the glyph of 0, across the right and
\* bottom edges of the screen
C11_Witness ==
    /\ DrewTwice
    /\ prev.reg_v[X(call.opcode)] = 62
    /\ prev.reg_v[Y(call.opcode)] = 30
    /\ prev2.display # BlankDisplay
    /\ prev.display # prev2.display
    /\ chip8.display = prev2.display
    /\ chip8.reg_v[FLAG] = 1

----------------------------------------------------------------------------
(* Fx29 *)

\* The last call was a step that fetched Fxkk
RanF(kk) == Ran(15) /\ Kk(call.opcode) = kk

\* Values of regX: the first and last glyphs, the last whose offset fits in
\* a byte, the first whose offset does not, and the largest
GlyphVals == <<0, 15, 51, 52, 255>>

\* For each value v of vals from the k-th on: Vx := v; I := glyph of Vx
RECURSIVE GlyphBody(_, _, _)
GlyphBody(x, vals, k) ==
    IF k > Len(vals) THEN <<>>
    ELSE InsLd(x, vals[k]) \o Ins(15, x, 2, 9) \o GlyphBody(x, vals, k + 1)

GlyphProgram(x) == Halted(GlyphBody(x, GlyphVals, 1))

BootGlyph == \E x \in Regs : FirstBoot(GlyphProgram(x))

NextGlyph ==
    \/ BootGlyph
    \/ Step({0})

SpecGlyph == Init /\ [][NextGlyph]_vars

\* C12: Fx29, for every value v of regX in 0..255: the step completes and
\* the index register becomes v * 5, formed without truncation to 8 bits,
\* masked to 12 bits (52 gives 260).
C12_GlyphOffsetUntruncated ==
    RanF(41) =>
        /\ status = "running"
        /\ chip8.reg_i = (prev.reg_v[X(call.opcode)] * GLYPH_ROWS) % I_MASK

----------------------------------------------------------------------------
(* Fx55 and Fx65 *)

\* V0 := 17; Vx := 34; I := 0xE00; store V0..Vx; I := 0; load V0..Vx (from
\* the charset); I := 0xFF0; store V0..Vx; I := I + V0; I := glyph of V0
BlockProgram(x) ==
    Halted(InsLd(0, 17) \o InsLd(x, 34)
             \o InsLdI(3584) \o Ins(15, x, 5, 5)
             \o InsLdI(0) \o Ins(15, x, 6, 5)
             \o InsLdI(4080) \o Ins(15, x, 5, 5)
             \o Ins(15, 0, 1, 14) \o Ins(15, 0, 2, 9))

BootBlock == \E x \in Regs : FirstBoot(BlockProgram(x))

NextBlock ==
    \/ BootBlock
    \/ Step({0})
    \/ ToggleIncrementIOnLd

SpecBlock == Init /\ [][NextBlock]_vars

\* C13: the index register is at most 0xFFF in every reachable state, after
\* any sequence of Annn, Fx1E, Fx29, Fx55 and Fx65 steps, with
\* increment_i_on_ld on or off.
C13_IndexFitsIn12Bits == chip8.reg_i <= I_MASK - 1

\* The addresses reg_i .. reg_i + X of the struct m about to execute opcode
Block(m, opcode) == m.reg_i .. m.reg_i + X(opcode)

\* reg_i after a block transfer that started from the struct m
IndexAfterBlock(m, opcode) ==
    IF m.increment_i_on_ld THEN m.reg_i + X(opcode) + 1 ELSE m.reg_i

\* C15: Fx55 writes registers 0..X to memory[index .. index + X] and changes
\* no other memory byte and no register; Fx65 reads memory[index .. index +
\* X] into registers 0..X and changes no memory and no register above X;
\* afterwards the index register is old index + X + 1 when
\* increment_i_on_ld is set and the old index when it is not.  (For blocks
\* that lie in memory: index + X <= 4095.)
C15_BlockTransfers ==
    /\ (RanF(85) /\ prev.reg_i + X(call.opcode) < MEMORY_SIZE) =>
          /\ status = "running"
          /\ \A a \in 0 .. X(call.opcode) :
                chip8.memory[prev.reg_i + a] = prev.reg_v[a]
          /\ \A a \in (0 .. MEMORY_SIZE - 1) \ Block(prev, call.opcode) :
                chip8.memory[a] = prev.memory[a]
          /\ chip8.reg_v = prev.reg_v
          /\ chip8.reg_i = IndexAfterBlock(prev, call.opcode)
    /\ (RanF(101) /\ prev.reg_i + X(call.opcode) < MEMORY_SIZE) =>
          /\ status = "running"
          /\ \A a \in 0 .. X(call.opcode) :
                chip8.reg_v[a] = prev.memory[prev.reg_i + a]
          /\ \A a \in X(call.opcode) + 1 .. NUM_REGS - 1 :
                chip8.reg_v[a] = prev.reg_v[a]
          /\ chip8.memory = prev.memory
          /\ chip8.reg_i = IndexAfterBlock(prev, call.opcode)

\* A load of all 16 registers from the charset with increment_i_on_ld set
C15_Witness ==
    /\ RanF(101)
    /\ X(call.opcode) = FLAG
    /\ prev.increment_i_on_ld
    /\ prev.reg_i = 0
    /\ prev.reg_v[FLAG] = 34
    /\ chip8.reg_v[FLAG] = CHARSET[NUM_REGS]
    /\ chip8.reg_i = NUM_REGS

----------------------------------------------------------------------------
(* Fx1E *)

\* The pairs (i, v) the add-index programs load into (I, Vx): sums below, at
\* and above 0xFFF
IndexPairs ==
    <<<<0, 0>>, <<100, 200>>, <<4095, 0>>, <<4095, 1>>, <<3841, 255>>, <<2048, 128>>>>

\* For each pair (i, v) of pairs from the k-th on: I := i; Vx := v; I += Vx
RECURSIVE AddIndexBody(_, _, _)
AddIndexBody(x, pairs, k) ==
    IF k > Len(pairs) THEN <<>>
    ELSE InsLdI(pairs[k][1]) \o InsLd(x, pairs[k][2]) \o Ins(15, x, 1, 14)
           \o AddIndexBody(x, pairs, k + 1)

\* The adds, then: I := 0xFF0; load V0..VF (which leaves I at 0x1000 when
\* increment_i_on_ld is set); Vx := 9; I += Vx
AddIndexProgram(x) ==
    Halted(AddIndexBody(x, IndexPairs, 1)
             \o InsLdI(4080) \o Ins(15, FLAG, 6, 5) \o InsLd(x, 9) \o Ins(15, x, 1, 14))

BootAddIndex == \E x \in Regs : FirstBoot(AddIndexProgram(x))

NextAddIndex ==
    \/ BootAddIndex
    \/ Step({0})
    \/ ToggleIncrementIOnLd

SpecAddIndex == Init /\ [][NextAddIndex]_vars

\* C14: Fx1E, for every X in 0..15: with s = old index + old regX, not
\* masked, the step completes, the flag register becomes 1 iff s > 0xFFF and
\* 0 otherwise, and the index register becomes s mod 0x1000.
C14_AddIndex ==
    RanF(30) =>
        LET s == prev.reg_i + prev.reg_v[X(call.opcode)]
        IN  /\ status = "running"
            /\ chip8.reg_v[FLAG] = (IF s > I_MASK - 1 THEN 1 ELSE 0)
            /\ chip8.reg_i = s % I_MASK

\* An add of the flag register itself that carries out of 12 bits
C14_Witness ==
    /\ RanF(30)
    /\ X(call.opcode) = FLAG
    /\ prev.reg_i = I_MASK - 1
    /\ prev.reg_v[FLAG] = 1
    /\ chip8.reg_i = 0
    /\ chip8.reg_v[FLAG] = 1

----------------------------------------------------------------------------
(* Fx33 *)

\* Where the store-bcd programs keep the digits (0xE00): above the program
BCD_AT == MEMORY_SIZE - ROMTOP

\* For each value v of 0 .. 255 in turn: Vx := v; store the digits of Vx
BcdBody(x) ==
    [k \in 1 .. 4 * U8 |->
        (InsLd(x, (k - 1) \div 4) \o Ins(15, x, 3, 3))[((k - 1) % 4) + 1]]

BcdProgram(x) == Halted(InsLdI(BCD_AT) \o BcdBody(x))

BootBcd == \E x \in Regs : FirstBoot(BcdProgram(x))

NextBcd ==
    \/ BootBcd
    \/ Step({0})

SpecBcd == Init /\ [][NextBcd]_vars

\* C16: Fx33, for every value v of regX in 0..255: the step completes and
\* writes h, t, u to memory[index], memory[index + 1], memory[index + 2],
\* each in 0..9 and with 100 h + 10 t + u = v; no other memory byte, no
\* register and not the index register change.  (For an index whose three
\* bytes lie in memory: index + 2 <= 4095.)
C16_StoreBcd ==
    (RanF(51) /\ prev.reg_i + 2 < MEMORY_SIZE) =>
        LET i == prev.reg_i
            h == chip8.memory[i]
            t == chip8.memory[i + 1]
            u == chip8.memory[i + 2]
        IN  /\ status = "running"
            /\ {h, t, u} \subseteq 0 .. 9
            /\ 100 * h + 10 * t + u = prev.reg_v[X(call.opcode)]
            /\ chip8.memory = [prev.memory EXCEPT ![i] = h, ![i + 1] = t, ![i + 2] = u]
            /\ chip8.reg_v = prev.reg_v
            /\ chip8.reg_i = prev.reg_i
            /\ chip8 = [prev EXCEPT !.memory = chip8.memory,
                                    !.reg_pc = prev.reg_pc + 2]

\* The digits of 255, held by the flag register
C16_Witness ==
    /\ RanF(51)
    /\ X(call.opcode) = FLAG
    /\ prev.reg_v[FLAG] = 255
    /\ chip8.memory[BCD_AT] = 2
    /\ chip8.memory[BCD_AT + 1] = 5
    /\ chip8.memory[BCD_AT + 2] = 5

----------------------------------------------------------------------------
(* The display *)

\* 00E0 and 00EE
InsCls == Ins(0, 0, 14, 0)

InsRet == Ins(0, 0, 14, 14)

\* A jump over a subroutine that returns at once (it is at 0x202); V0 := 3;
\* V1 := 3; I := glyph of 2; draw it at (V0, V1); call the subroutine
TourStart ==
    InsJp(ROMTOP + 4) \o InsRet
      \o InsLd(0, 3) \o InsLd(1, 3) \o InsLdI(2 * GLYPH_ROWS)
      \o Ins(13, 0, 1, GLYPH_ROWS) \o InsCall(ROMTOP + 2)

\* The skips, each over a clear-display when it skips
TourSkips ==
    Ins(3, 0, 0, 3) \o InsCls \o Ins(4, 0, 0, 9) \o InsCls
      \o Ins(5, 0, 1, 0) \o InsCls \o Ins(7, 0, 0, 1) \o Ins(9, 0, 1, 0) \o InsCls
      \o Ins(14, 0, 9, 14) \o InsLd(4, 1) \o Ins(14, 0, 10, 1) \o InsLd(4, 2)

\* 8xyn on V2 and V1, for every n that is an instruction; a random byte
TourAlu ==
    Ins(8, 2, 1, 0) \o Ins(8, 2, 1, 1) \o Ins(8, 2, 1, 2) \o Ins(8, 2, 1, 3)
      \o Ins(8, 2, 1, 4) \o Ins(8, 2, 1, 5) \o Ins(8, 2, 1, 6) \o Ins(8, 2, 1, 7)
      \o Ins(8, 2, 1, 14) \o Ins(12, 3, 15, 15)

\* The index register; V0 := 255; I := 0x300; store-bcd V0; store V0..V1;
\* load V0..V1
TourIndex ==
    Ins(15, 0, 1, 14) \o Ins(15, 0, 2, 9)
      \o InsLd(0, 255) \o InsLdI(768) \o Ins(15, 0, 3, 3)
      \o Ins(15, 1, 5, 5) \o Ins(15, 1, 6, 5)

\* Words that are no instruction
TourUnknown == Ins(0, 1, 2, 3) \o Ins(8, 0, 0, 8) \o Ins(14, 0, 0, 0) \o Ins(15, 0, 15, 15)

\* V0 := 1; DT := V0; ST := V0; V5 := DT; V6 := key (waits for one); clear
\* the display; I := glyph of 2; draw it
TourEnd ==
    InsLd(0, 1) \o Ins(15, 0, 1, 5) \o Ins(15, 0, 1, 8) \o Ins(15, 5, 0, 7)
      \o Ins(15, 6, 0, 10) \o InsCls \o InsLdI(2 * GLYPH_ROWS) \o Ins(13, 0, 1, GLYPH_ROWS)

\* Bnnn
InsJpV0(nnn) == <<176 + (nnn \div 256), nnn % 256>>

\* A program that runs every instruction of step with the glyph on the
\* screen; the jump through V0 (which is 0) goes to the instruction after it
TourProgram ==
    LET body == TourStart \o TourSkips \o TourAlu \o TourIndex \o TourUnknown
                  \o InsLd(0, 0)
    IN  Halted(body \o InsJpV0(ROMTOP + Len(body) + 2) \o TourEnd)

BootTour == FirstBoot(TourProgram)

NextTour ==
    \/ BootTour
    \/ Step({0, 255})
    \/ UpdateTimers(1)
    \/ SetKeyPressed({4})

SpecTour == Init /\ [][NextTour]_vars

\* The last call may change the display: it was the construction, a load,
\* or a step that fetched 00E0 or Dxyn
MayDraw ==
    \/ call.op \in {"new", "boot_rom"}
    \/ call.op = "step" /\ call.opcode = 224
    \/ Ran(13)

\* C17: every framebuffer cell is 0 or 1 in every reachable state, and the
\* framebuffer changes only through clear-display, draw or a load: every
\* other instruction, update_timers and set_key_pressed leave all 2048
\* cells as they were.
C17_DisplayFrame ==
    /\ \A p \in 0 .. DISPLAY_WIDTH * DISPLAY_HEIGHT - 1 : chip8.display[p] \in {0, 1}
    /\ ~MayDraw => chip8.display = prev.display

\* A store-bcd with the glyph on the screen
C17_Witness ==
    /\ RanF(51)
    /\ status = "running"
    /\ prev.display # BlankDisplay
    /\ chip8.display = prev.display
    /\ chip8.memory # prev.memory

----------------------------------------------------------------------------
(* Words that are no instruction *)

\* The sub-opcodes kk of the Fxkk instructions
F_SUBOPCODES == {7, 10, 21, 24, 30, 41, 51, 85, 101}

\* The 16-bit word w is one of the defined instructions
Recognized(w) ==
    CASE Xh(w) = 0 -> w \in {224, 238}
      [] Xh(w) \in {5, 9} -> N(w) = 0
      [] Xh(w) = 8 -> N(w) \in (0 .. 7) \cup {14}
      [] Xh(w) = 14 -> Kk(w) \in {158, 161}
      [] Xh(w) = 15 -> Kk(w) \in F_SUBOPCODES
      [] OTHER -> TRUE

\* The families with words that are no instruction, and the quarters of a
\* family's 4096 words
UnknownFamilies == {0, 5, 8, 9, 14, 15}

FAMILY == U16 \div 16

QUARTER == FAMILY \div 4

\* The words of quarter q of family xh that are no instruction, in order
UnknownWords(xh, q) ==
    SelectSeq([k \in 1 .. QUARTER |-> xh * FAMILY + q * QUARTER + k - 1],
              LAMBDA w : ~Recognized(w))

\* The bytes of a sequence of words
WordBytes(ws) ==
    [k \in 1 .. 2 * Len(ws) |->
        IF k % 2 = 1 THEN ws[(k + 1) \div 2] \div 256 ELSE ws[k \div 2] % 256]

\* V0 := 1 (so V0 differs from V1 and the other registers are equal);
\* I := glyph of 2; draw it at (V0, V0); then the words
UnknownProgram(xh, q) ==
    Halted(InsLd(0, 1) \o InsLdI(2 * GLYPH_ROWS) \o Ins(13, 0, 0, GLYPH_ROWS)
             \o WordBytes(UnknownWords(xh, q)))

BootUnknown == \E xh \in UnknownFamilies, q \in 0 .. 3 : FirstBoot(UnknownProgram(xh, q))

NextUnknown ==
    \/ BootUnknown
    \/ Step({0})

SpecUnknown == Init /\ [][NextUnknown]_vars

\* The last call was a step that fetched a word that is no instruction
RanUnknown == call.op = "step" /\ call.opcode # -1 /\ ~Recognized(call.opcode)

\* C18: for every 16-bit word that is not one of the defined instructions,
\* step completes, sets the program counter to the old one + 2 and leaves
\* memory, the registers, the index register, the stack and its pointer, the
\* timers, the input latch and the framebuffer as they were.
C18_UnknownIsNoOp ==
    RanUnknown =>
        /\ status = "running"
        /\ chip8 = [prev EXCEPT !.reg_pc = prev.reg_pc + 2]

\* 5121 with V1 = V2: no skip
C18_Witness ==
    /\ RanUnknown
    /\ call.opcode = 20769
    /\ prev.reg_v[1] = prev.reg_v[2]
    /\ prev.display # BlankDisplay
    /\ chip8.reg_pc = prev.reg_pc + 2

----------------------------------------------------------------------------
(* 6xkk and 7xkk *)

\* For each byte K of 0 .. 255 in turn: Vx := K; Vx += K; Vx += 255
ByteBody(x) ==
    [k \in 1 .. 6 * U8 |->
        LET kk == (k - 1) \div 6
        IN  (InsLd(x, kk) \o Ins(7, x, kk \div 16, kk % 16) \o Ins(7, x, 15, 15))
              [((k - 1) % 6) + 1]]

\* VF := 7; the register after Vx := 9; then the loads and adds
ByteProgram(x) ==
    Halted(InsLd(FLAG, 7) \o InsLd((x + 1) % NUM_REGS, 9) \o ByteBody(x))

BootByte == \E x \in Regs : FirstBoot(ByteProgram(x))

NextByte ==
    \/ BootByte
    \/ Step({0})

SpecByte == Init /\ [][NextByte]_vars

\* C20: 6xkk sets regX to exactly K, for every X in 0..15 and K in 0..255;
\* 7xkk sets regX to (old regX + K) mod 256 and, for X # 15, leaves the flag
\* register as it was; both complete, leave every other register as it was
\* and advance the program counter by exactly 2.
C20_ByteLoadAndAdd ==
    LET x == X(call.opcode)
        kk == Kk(call.opcode)
    IN  /\ Ran(6) =>
              /\ status = "running"
              /\ chip8.reg_v = [prev.reg_v EXCEPT ![x] = kk]
              /\ chip8.reg_pc = prev.reg_pc + 2
        /\ Ran(7) =>
              /\ status = "running"
              /\ chip8.reg_v = [prev.reg_v EXCEPT ![x] = (prev.reg_v[x] + kk) % 256]
              /\ x # FLAG => chip8.reg_v[FLAG] = prev.reg_v[FLAG]
              /\ chip8.reg_pc = prev.reg_pc + 2

\* An add that wraps, with the flag register holding neither 0 nor 1
C20_Witness ==
    /\ Ran(7)
    /\ X(call.opcode) = 3
    /\ prev.reg_v[3] = 200
    /\ Kk(call.opcode) = 200
    /\ chip8.reg_v[3] = 144
    /\ prev.reg_v[FLAG] = 7
    /\ chip8.reg_v[FLAG] = 7

----------------------------------------------------------------------------
(* Calls and the returns that match them *)

\* 0x200: call F; 0x202: call G; 0x204: halt;
\* F (0x206): call G; call G; return.  G (0x20C): return
CallTree ==
    InsCall(ROMTOP + 6) \o InsCall(ROMTOP + 12) \o InsJp(ROMTOP + 4)
      \o InsCall(ROMTOP + 12) \o InsCall(ROMTOP + 12) \o InsRet
      \o InsRet

\* V0 := 1, then a return that no call precedes
ReturnFirst == InsLd(0, 1) \o InsRet

BootCalls ==
    \/ \E k \in 1 .. MaxCalls : FirstBoot(CallChain(k))
    \/ FirstBoot(CallTree)
    \/ FirstBoot(ReturnFirst)

NextCalls ==
    \/ BootCalls
    \/ Step({0})
    \/ SetKeyPressed({5})

SpecCalls == Init /\ [][NextCalls]_vars

\* The slots a call can push into: it writes stack[reg_sp + 1]
CanPush(sp) == sp + 1 < STACK_SIZE

\* C21: call and return move the stack pointer in lock-step.  A call made
\* while the stack has room completes and raises the stack pointer by
\* exactly 1; the return that matches a call made at address A with stack
\* pointer s, whatever balanced calls and returns ran in between, completes,
\* sets the program counter to A + 2, lowers the stack pointer by exactly 1
\* and so restores it to s.
C21_CallReturnLockStep ==
    /\ (Ran(2) /\ CanPush(prev.reg_sp)) =>
          /\ status = "running"
          /\ chip8.reg_sp = prev.reg_sp + 1
    /\ (RanRet /\ call.matching # NoCall /\ CanPush(call.matching.sp)) =>
          /\ status = "running"
          /\ chip8.reg_pc = call.matching.at + 2
          /\ chip8.reg_sp = prev.reg_sp - 1
          /\ chip8.reg_sp = call.matching.sp

\* F returns to 0x202, after both of its calls of G have returned
C21_Witness ==
    /\ RanRet
    /\ call.matching = [at |-> ROMTOP, sp |-> 0]
    /\ call2.op = "step" /\ call2.opcode = 238
    /\ call2.matching = [at |-> ROMTOP + 8, sp |-> 1]
    /\ chip8.reg_pc = ROMTOP + 2
    /\ chip8.reg_sp = 0

\* C22: a return made with the stack pointer at 0 does not abort the step
\* and does not take the stack pointer below 0: the stack pointer is in
\* 0 .. 15 in every reachable state, and the slot a later return reads is
\* one of the 16.
C22_UnderflowPolicy ==
    /\ chip8.reg_sp \in 0 .. STACK_SIZE - 1
    /\ (RanRet /\ prev.reg_sp = 0) => status = "running"
    /\ RanRet => prev.reg_sp < STACK_SIZE

----------------------------------------------------------------------------
(* The report of an unknown instruction *)

\* C23: a step reports exactly when the word it ran is no defined
\* instruction: every undefined word of a family (0nnn, 5xyN and 9xyN with
\* N # 0, 8xyN, Exkk, Fxkk) is reported once, and no defined instruction is
\* reported.
C23_UnknownIsReported ==
    (call.op = "step" /\ call.opcode # -1 /\ status = "running") =>
        (call.report <=> ~Recognized(call.opcode))

----------------------------------------------------------------------------
(* The skips on the key latch *)

\* The values the skip programs compare the latch with
SkipVals == {0, 5, NUM_REGS - 1, NUM_REGS, NO_KEY}

\* V0 := v; SKP V0; CLS; SKNP V0; CLS; halt
SkipProgram(v) ==
    Halted(InsLd(0, v) \o Ins(14, 0, 9, 14) \o InsCls
             \o Ins(14, 0, 10, 1) \o InsCls)

BootSkip == \E v \in SkipVals : FirstBoot(SkipProgram(v))

NextSkip ==
    \/ BootSkip
    \/ Step({0})
    \/ SetKeyPressed(HostKeys)

SpecSkip == Init /\ [][NextSkip]_vars

\* The last call was a step that fetched Exkk
RanE(kk) == Ran(14) /\ Kk(call.opcode) = kk

\* The last step skipped the instruction that followed the one it ran
Skipped == status = "running" /\ chip8.reg_pc = prev.reg_pc + 4

\* C24: while no key is latched (key_pressed = 0xFF), Ex9E never skips and
\* ExA1 always skips, whatever Vx holds; and Ex9E skips only when a key
\* 0..15 is latched and equals Vx.
C24_SkipsWithoutKey ==
    /\ (RanE(158) /\ prev.key_pressed = NO_KEY) => ~Skipped
    /\ (RanE(161) /\ prev.key_pressed = NO_KEY) => Skipped
    /\ (RanE(158) /\ Skipped) =>
          /\ prev.key_pressed \in 0 .. NUM_REGS - 1
          /\ prev.key_pressed = prev.reg_v[X(call.opcode)]

=============================================================================
